---- MODULE Spec2Model ----
(***************************************************************************)
(* Model of src/app.py: a Flask backend holding one process-wide game      *)
(* session (GAME_STATE) that is filled by /generate_story from a document  *)
(* produced by an external generation service, and advanced by             *)
(* /check_answer.                                                          *)
(*                                                                         *)
(* Text that the code normalises (answers, solutions) is a sequence of     *)
(* one-character strings, so that strip() and lower() are computed.  Text  *)
(* that the code only looks up or copies (difficulty, genre, titles) is a  *)
(* plain string.  A Python dict is a function whose DOMAIN is its key set. *)
(***************************************************************************)
EXTENDS Integers, Sequences, FiniteSets, TLC

VARIABLES
    client,      \* module global `client`: "Client" or "None"
    GAME_STATE,  \* module global dict GAME_STATE
    resp,        \* the response to the last handled request
    gen_calls,   \* generate_content calls made while handling the last request
    warning,     \* the last request printed the puzzle-count warning
    request,     \* the last handled request: endpoint and request.get_json()
    generated,   \* what the generation service did for the last request
    prompt,      \* the generation request the last handled request sent
    threads,     \* interleaved handling: each server thread's position and locals
    compared     \* indices, read from the game now installed, at which an answer
                 \* was compared since /generate_story last assigned to GAME_STATE

vars ==
    <<client, GAME_STATE, resp, gen_calls, warning, request, generated, prompt,
      threads, compared>>

-----------------------------------------------------------------------------
(* Bounds *)

\* longest puzzle list the generation service returns in the model
MaxPuzzles == 3

\* longest enumerated answer text and longest enumerated solution text of
\* the specification that exercises the answer comparison
MaxAnswerLen == 3

MaxSolutionLen == 2

\* highest index the interleaved handlers store: a handler that loaded the
\* index of an earlier game carries it into the next, so the index has no
\* bound of its own
MaxIndex == 3

-----------------------------------------------------------------------------
(* Python helpers *)

\* d[k] = v on a dict
Put(d, k, v) == [x \in (DOMAIN d) \cup {k} |-> IF x = k THEN v ELSE d[x]]

\* a dict restricted to some of its keys
Restrict(d, S) == [x \in S |-> d[x]]

EmptyDict == [x \in {} |-> 0]

UpperChars == <<"A","B","C","D","E","F","G","H","I","J","K","L","M",
                "N","O","P","Q","R","S","T","U","V","W","X","Y","Z">>

LowerChars == <<"a","b","c","d","e","f","g","h","i","j","k","l","m",
                "n","o","p","q","r","s","t","u","v","w","x","y","z">>

Whitespace == {" ", "\t", "\n", "\r"}

LowerChar(c) ==
    IF \E i \in 1..Len(UpperChars) : UpperChars[i] = c
    THEN LowerChars[CHOOSE i \in 1..Len(UpperChars) : UpperChars[i] = c]
    ELSE c

\* str.lower()
lower(s) == [i \in 1..Len(s) |-> LowerChar(s[i])]

RECURSIVE lstrip(_)
lstrip(s) ==
    IF s = <<>> THEN s
    ELSE IF Head(s) \in Whitespace THEN lstrip(Tail(s)) ELSE s

RECURSIVE rstrip(_)
rstrip(s) ==
    IF s = <<>> THEN s
    ELSE IF s[Len(s)] \in Whitespace THEN rstrip(SubSeq(s, 1, Len(s) - 1)) ELSE s

\* str.strip()
strip(s) == rstrip(lstrip(s))

-----------------------------------------------------------------------------
(* Prompt building *)

\* a difficulty table with the counts of Easy and Hard exchanged
difficulty_map_swapped(difficulty) ==
    CASE difficulty = "Easy"   -> 3
      [] difficulty = "Medium" -> 5
      [] difficulty = "Hard"   -> 7
      [] OTHER                 -> 5

\* difficulty_map.get(difficulty, 5)
difficulty_map(difficulty) ==
    CASE difficulty = "Easy"   -> 7
      [] difficulty = "Medium" -> 5
      [] difficulty = "Hard"   -> 3
      [] OTHER                 -> 5

\* TONE_MAP.get(genre, "Neutral and clear.")
TONE_MAP(genre) ==
    CASE genre = "Sci-fi" ->
           "Clinical, technical, focused on cosmic scale, system failures, or computer logs."
      [] genre = "Medieval" ->
           "Mythic, slightly formal, referring to royalty, oaths, divine law, and ancient structures."
      [] genre = "Mythological" ->
           "Epic, archaic language, focused on fate, gods, heroes, and destiny."
      [] genre = "Horror" ->
           "Suspenseful, sensory, using first-person dread, panic, and environmental details (smell, cold)."
      [] genre = "Modern" ->
           "Casual, journalistic, focused on news reports, conspiracy theories, or digital communications (text messages)."
      [] OTHER -> "Neutral and clear."

-----------------------------------------------------------------------------
(* Documents the generation service can return *)

\* two puzzle objects with all the fields of PUZZLE_SCHEMA; the stored
\* solutions carry upper case and surrounding blanks
PuzzleA ==
    [puzzle_number |-> 1, title |-> "Gate", puzzle_text |-> "Decode: LFZ",
     solution |-> <<"K","e","y"," ">>,
     narrative_continuation |-> "The gate opens.",
     hint_1 |-> "a1", hint_2 |-> "a2", hint_3 |-> "a3"]

PuzzleB ==
    [puzzle_number |-> 2, title |-> "Vault", puzzle_text |-> "Two letters.",
     solution |-> <<" ","o","K">>,
     narrative_continuation |-> "The vault unlocks.",
     hint_1 |-> "b1", hint_2 |-> "b2", hint_3 |-> "b3"]

\* the puzzle list of story v cut to n puzzles: the two stories alternate
\* the two puzzles in opposite order, so that neighbouring puzzles and the
\* two stories differ at every position
PuzzleList(v, n) ==
    [i \in 1..n |-> IF (i + v) % 2 = 0 THEN PuzzleA ELSE PuzzleB]

\* the four top-level fields STORY_SCHEMA requires
StoryFields == {"story_title", "introduction", "puzzles", "ending_text"}

StoryDoc(v, n) ==
    [story_title  |-> IF v = 1 THEN "Story one" ELSE "Story two",
     introduction |-> IF v = 1 THEN "It begins." ELSE "Once more.",
     puzzles      |-> PuzzleList(v, n),
     ending_text  |-> IF v = 1 THEN "The end." ELSE "All is lost."]

FullDocs == { StoryDoc(v, n) : v \in {1, 2}, n \in 0..MaxPuzzles }

\* every JSON object json.loads can hand back: a full document, or one with
\* some of the required fields missing
Docs == { Restrict(d, S) : d \in FullDocs, S \in SUBSET StoryFields }

\* what client.models.generate_content(...) followed by json.loads does:
\* the call raises, the text is not JSON, the text is JSON but no object,
\* or the text is a JSON object
NotCalled == [kind |-> "not_called", doc |-> EmptyDict]

GenOutcomes ==
    { [kind |-> k, doc |-> EmptyDict] : k \in {"raise", "invalid_json", "not_object"} }
    \cup { [kind |-> "object", doc |-> d] : d \in Docs }

-----------------------------------------------------------------------------
(* Request bodies *)

\* request.get_json() of /generate_story: a JSON object with some of the
\* two fields, or a JSON value that is no object
StartBodies ==
    { [json |-> "object", data |-> Restrict([difficulty |-> d, genre |-> g], S)] :
         d \in {"", "Hard", "Easy"},
         g \in {"", "Horror"},
         S \in SUBSET {"difficulty", "genre"} }
    \cup { [json |-> "not_object", data |-> EmptyDict] }

\* values of the "answer" field: text, or a JSON value that is no text
Str(s) == [type |-> "str", val |-> s]

AnswerTexts ==
    { <<>>, <<"k","e","y">>, <<" ","K","E","Y","\n">>, <<"k","e"," ","y">>,
      <<"k","e">>, <<"O","k"," ">>, <<"o","k">> }

AnswerValues ==
    { Str(s) : s \in AnswerTexts } \cup { [type |-> "int", val |-> <<"4","2">>] }

\* request.get_json() of /check_answer
AnswerBodies ==
    { [json |-> "object", data |-> [answer |-> a]] : a \in AnswerValues }
    \cup { [json |-> "object", data |-> EmptyDict],
           [json |-> "not_object", data |-> EmptyDict] }

-----------------------------------------------------------------------------
(* Responses: status code and JSON body; an exception that leaves the      *)
(* handler is Flask's 500 with no JSON body of the application             *)

Json(code, body) == [code |-> code, body |-> body]

Unhandled(exc) == [code |-> 500, body |-> [unhandled |-> exc]]

NoResponse == [code |-> 0, body |-> EmptyDict]

\* the body of the 500 response of generate_story's except clause:
\* f"Failed to generate story with Gemini: {e}"
FailText(exc) ==
    CASE exc = "call" ->
           "Failed to generate story with Gemini: service error"
      [] exc = "json" ->
           "Failed to generate story with Gemini: Expecting value: line 1 column 1 (char 0)"
      [] exc = "type" ->
           "Failed to generate story with Gemini: list indices must be integers or slices, not str"
      [] exc = "puzzles" ->
           "Failed to generate story with Gemini: 'puzzles'"
      [] exc = "index" ->
           "Failed to generate story with Gemini: list index out of range"
      [] exc = "story_title" ->
           "Failed to generate story with Gemini: 'story_title'"
      [] OTHER ->
           "Failed to generate story with Gemini: 'introduction'"

GenerationFailure(exc) == Json(500, [error |-> FailText(exc)])

ServiceUnavailable ==
    Json(500, [error |-> "Gemini API client not initialized. Check your API key."])

InvalidRequest == Json(400, [error |-> "Missing difficulty or genre."])

NotStarted == Json(400, [error |-> "Game not initialized. Please start a new game."])

\* a finished game answered as an error
AlreadyFinished_as_error == Json(400, [error |-> "Game already finished."])

AlreadyFinished == Json(200, [success |-> FALSE, message |-> "Game already finished."])

Incorrect ==
    Json(200, [success |-> TRUE, status |-> "incorrect",
               message |-> "The code is incorrect. Try again."])

-----------------------------------------------------------------------------
(* /generate_story *)

\* no generation request was sent
NoPrompt ==
    [num_puzzles |-> 0, difficulty |-> "", genre |-> "", narrative_tone |-> ""]

\* what a handler leaves behind: the session dict, the response, the number
\* of outbound generation calls, whether the warning was printed, and the
\* generation request it sent (none, unless Sent says otherwise)
Outcome(gs, r, calls, warned) ==
    [GAME_STATE |-> gs, resp |-> r, gen_calls |-> calls, warning |-> warned,
     prompt |-> NoPrompt]

\* the outcome o of a handler that sent the generation request p
Sent(p, o) == [o EXCEPT !.prompt = p]

\* what user_prompt states: the puzzle count, the two labels and the tone
user_prompt(num_puzzles, difficulty, genre, narrative_tone) ==
    [num_puzzles |-> num_puzzles, difficulty |-> difficulty, genre |-> genre,
     narrative_tone |-> narrative_tone]

\* Python's None as the value of a missing request field
None == "<None>"

\* data.get(key) on the request dict
dict_get(data, key) == IF key \in DOMAIN data THEN data[key] ELSE None

\* `not v` for a request field: None or the empty string
Falsy(v) == v = None \/ v = ""

\* a field test that rejects only when both fields are missing
missing_fields_both(difficulty, genre) == Falsy(difficulty) /\ Falsy(genre)

\* `not difficulty or not genre`
missing_fields(difficulty, genre) == Falsy(difficulty) \/ Falsy(genre)

\* an install that overwrites the story and keeps the index of a running game
install_keeping_index(gs, story_data) ==
    Put(Put(gs, "story", story_data), "current_puzzle_index",
        IF "current_puzzle_index" \in DOMAIN gs THEN gs.current_puzzle_index ELSE 0)

\* GAME_STATE['story'] = story_data; GAME_STATE['current_puzzle_index'] = 0
install(gs, story_data) ==
    Put(Put(gs, "story", story_data), "current_puzzle_index", 0)

\* the jsonify(...) of the success return
StartSuccess(story_data, current_puzzle) ==
    Json(200, [success       |-> TRUE,
               title         |-> story_data.story_title,
               introduction  |-> story_data.introduction,
               puzzle        |-> current_puzzle,
               puzzle_index  |-> 1,
               total_puzzles |-> Len(story_data.puzzles)])

\* a try block that empties GAME_STATE when the story has no puzzle
install_and_answer_rollback(gs, story_data, warned) ==
    LET installed == install(gs, story_data)
    IN  IF Len(story_data.puzzles) = 0
        THEN Outcome(EmptyDict, GenerationFailure("index"), 1, warned)
        ELSE IF "story_title" \notin DOMAIN story_data
        THEN Outcome(installed, GenerationFailure("story_title"), 1, warned)
        ELSE IF "introduction" \notin DOMAIN story_data
        THEN Outcome(installed, GenerationFailure("introduction"), 1, warned)
        ELSE Outcome(installed,
                     StartSuccess(story_data, story_data.puzzles[1]), 1, warned)

\* the try block from the two GAME_STATE assignments to the return
install_and_answer(gs, story_data, warned) ==
    LET installed == install(gs, story_data)
    IN  IF Len(story_data.puzzles) = 0
        THEN Outcome(installed, GenerationFailure("index"), 1, warned)
        ELSE IF "story_title" \notin DOMAIN story_data
        THEN Outcome(installed, GenerationFailure("story_title"), 1, warned)
        ELSE IF "introduction" \notin DOMAIN story_data
        THEN Outcome(installed, GenerationFailure("introduction"), 1, warned)
        ELSE Outcome(installed,
                     StartSuccess(story_data, story_data.puzzles[1]), 1, warned)

\* a try block that raises when the puzzle count is not the requested one
use_story_strict(gs, story_data, num_puzzles) ==
    IF "puzzles" \notin DOMAIN story_data
    THEN Outcome(gs, GenerationFailure("puzzles"), 1, FALSE)
    ELSE IF Len(story_data.puzzles) # num_puzzles
    THEN Outcome(gs, GenerationFailure("call"), 1, TRUE)
    ELSE install_and_answer(gs, story_data, FALSE)

\* the try block once response.text has been parsed into story_data
use_story(gs, story_data, num_puzzles) ==
    IF "puzzles" \notin DOMAIN story_data
    THEN Outcome(gs, GenerationFailure("puzzles"), 1, FALSE)
    ELSE install_and_answer(gs, story_data,
                            Len(story_data.puzzles) # num_puzzles)

\* a failed call that is tried a second time
call_failed_retrying(gs) == Outcome(gs, GenerationFailure("call"), 2, FALSE)

\* client.models.generate_content raises: the except clause answers
call_failed(gs) == Outcome(gs, GenerationFailure("call"), 1, FALSE)

\* the handler: cl and gs are the globals, body the request, out what the
\* generation service does if it is called
generate_story_handler(cl, gs, body, out) ==
    IF cl = "None" THEN Outcome(gs, ServiceUnavailable, 0, FALSE)
    ELSE IF body.json # "object" THEN Outcome(gs, Unhandled("AttributeError"), 0, FALSE)
    ELSE LET difficulty  == dict_get(body.data, "difficulty")
             genre       == dict_get(body.data, "genre")
             num_puzzles == difficulty_map(difficulty)
             narrative_tone == TONE_MAP(genre)
         IN  IF missing_fields(difficulty, genre)
             THEN Outcome(gs, InvalidRequest, 0, FALSE)
             ELSE Sent(user_prompt(num_puzzles, difficulty, genre, narrative_tone),
                       CASE out.kind = "raise" -> call_failed(gs)
                         [] out.kind = "invalid_json" ->
                              Outcome(gs, GenerationFailure("json"), 1, FALSE)
                         [] out.kind = "not_object" ->
                              Outcome(gs, GenerationFailure("type"), 1, FALSE)
                         [] OTHER -> use_story(gs, out.doc, num_puzzles))

-----------------------------------------------------------------------------
(* /check_answer *)

\* data.get('answer', '')
get_answer(data) == IF "answer" \in DOMAIN data THEN data.answer ELSE Str(<<>>)

\* a normalisation that forgets strip()
normalize_lower_only(s) == lower(s)

\* .strip().lower()
normalize(s) == lower(strip(s))

\* a "correct" response that reports the zero-based position
Correct_zero_based(current_puzzle, next_puzzle, next_index) ==
    Json(200, [success      |-> TRUE,
               status       |-> "correct",
               narrative    |-> current_puzzle.narrative_continuation,
               puzzle       |-> next_puzzle,
               puzzle_index |-> next_index])

\* response_data when a next puzzle exists
Correct(current_puzzle, next_puzzle, next_index) ==
    Json(200, [success      |-> TRUE,
               status       |-> "correct",
               narrative    |-> current_puzzle.narrative_continuation,
               puzzle       |-> next_puzzle,
               puzzle_index |-> next_index + 1])

\* response_data when the game is complete
Complete(current_puzzle, story_data) ==
    Json(200, [success     |-> TRUE,
               status      |-> "complete",
               narrative   |-> current_puzzle.narrative_continuation,
               ending_text |-> story_data.ending_text])

\* a matching branch that adds two to the index
answer_matches_skipping(gs, story_data, current_index) ==
    LET current_puzzle == story_data.puzzles[current_index + 1]
        advanced   == Put(gs, "current_puzzle_index", gs.current_puzzle_index + 2)
        next_index == advanced.current_puzzle_index
    IN  IF next_index < Len(story_data.puzzles)
        THEN Outcome(advanced,
                     Correct(current_puzzle, story_data.puzzles[next_index + 1],
                             next_index),
                     0, FALSE)
        ELSE IF "ending_text" \notin DOMAIN story_data
        THEN Outcome(advanced, Unhandled("KeyError"), 0, FALSE)
        ELSE Outcome(advanced, Complete(current_puzzle, story_data), 0, FALSE)

\* the branch taken when user_answer == correct_solution
answer_matches(gs, story_data, current_index) ==
    LET current_puzzle == story_data.puzzles[current_index + 1]
        advanced   == Put(gs, "current_puzzle_index", gs.current_puzzle_index + 1)
        next_index == advanced.current_puzzle_index
    IN  IF next_index < Len(story_data.puzzles)
        THEN Outcome(advanced,
                     Correct(current_puzzle, story_data.puzzles[next_index + 1],
                             next_index),
                     0, FALSE)
        ELSE IF "ending_text" \notin DOMAIN story_data
        THEN Outcome(advanced, Unhandled("KeyError"), 0, FALSE)
        ELSE Outcome(advanced, Complete(current_puzzle, story_data), 0, FALSE)

\* the return of the branch `current_index >= len(story_data['puzzles'])`
already_finished_reset(gs) ==
    Outcome(Put(gs, "current_puzzle_index", 0), AlreadyFinished, 0, FALSE)

already_finished(gs) == Outcome(gs, AlreadyFinished, 0, FALSE)

\* the else branch of `user_answer == correct_solution`
on_mismatch_advancing(gs) ==
    Outcome(Put(gs, "current_puzzle_index", gs.current_puzzle_index + 1),
            Incorrect, 0, FALSE)

on_mismatch(gs) == Outcome(gs, Incorrect, 0, FALSE)

\* a handler that stores the normalised solution back into the story
check_story_normalizing(gs, user_answer) ==
    IF "story" \notin DOMAIN gs THEN Outcome(gs, NotStarted, 0, FALSE)
    ELSE LET current_index == gs.current_puzzle_index
             story_data    == gs.story
         IN  IF current_index >= Len(story_data.puzzles)
             THEN already_finished(gs)
             ELSE LET correct_solution ==
                          normalize(story_data.puzzles[current_index + 1].solution)
                      kept == [gs EXCEPT !.story.puzzles[current_index + 1].solution
                                            = correct_solution]
                  IN  IF user_answer = correct_solution
                      THEN answer_matches(kept, kept.story, current_index)
                      ELSE on_mismatch(kept)

\* the handler from the 'story' test on, user_answer being normalised
check_story(gs, user_answer) ==
    IF "story" \notin DOMAIN gs THEN Outcome(gs, NotStarted, 0, FALSE)
    ELSE LET current_index == gs.current_puzzle_index
             story_data    == gs.story
         IN  IF current_index >= Len(story_data.puzzles)
             THEN already_finished(gs)
             ELSE LET correct_solution ==
                          normalize(story_data.puzzles[current_index + 1].solution)
                  IN  IF user_answer = correct_solution
                      THEN answer_matches(gs, story_data, current_index)
                      ELSE on_mismatch(gs)

check_answer_handler(gs, body) ==
    IF body.json # "object" THEN Outcome(gs, Unhandled("AttributeError"), 0, FALSE)
    ELSE IF get_answer(body.data).type # "str"
    THEN Outcome(gs, Unhandled("AttributeError"), 0, FALSE)
    ELSE check_story(gs, normalize(get_answer(body.data).val))

-----------------------------------------------------------------------------
(* The state machine: requests are handled one at a time *)

Apply(op, body, out, o) ==
    /\ GAME_STATE' = o.GAME_STATE
    /\ resp' = o.resp
    /\ gen_calls' = o.gen_calls
    /\ warning' = o.warning
    /\ request' = [op |-> op, body |-> body]
    /\ generated' = out
    /\ prompt' = o.prompt
    /\ UNCHANGED <<client, threads, compared>>

NoRequest == [op |-> "none", body |-> [json |-> "none", data |-> EmptyDict]]

\* the threads of the server that handle requests side by side
Threads == {"t1", "t2"}

\* a thread between two requests: no locals; resp is its last response, and
\* stale_index, evaluated, seen and advanced_stale record what its last
\* /check_answer observed of a /generate_story running beside it
IdleThread ==
    [pc             |-> "idle",
     user_answer    |-> <<>>,
     current_index  |-> 0,
     story_data     |-> EmptyDict,
     loaded         |-> 0,
     stale_index    |-> FALSE,
     evaluated      |-> FALSE,
     seen           |-> "current",
     advanced_stale |-> FALSE,
     resp           |-> NoResponse]

\* genai.Client(...) succeeded or raised at import time; GAME_STATE = {}
Init ==
    /\ client \in {"Client", "None"}
    /\ GAME_STATE = EmptyDict
    /\ resp = NoResponse
    /\ gen_calls = 0
    /\ warning = FALSE
    /\ request = NoRequest
    /\ generated = NotCalled
    /\ prompt = NoPrompt
    /\ threads = [t \in Threads |-> IdleThread]
    /\ compared = {}

\* the request reaches client.models.generate_content
ReachesCall(cl, body) ==
    /\ cl # "None"
    /\ body.json = "object"
    /\ ~ missing_fields(dict_get(body.data, "difficulty"),
                        dict_get(body.data, "genre"))

StartGame(body, out) ==
    Apply("generate_story", body, out,
          generate_story_handler(client, GAME_STATE, body, out))

CheckAnswer(body) ==
    Apply("check_answer", body, NotCalled, check_answer_handler(GAME_STATE, body))

generate_story ==
    \E body \in StartBodies :
        IF ReachesCall(client, body)
        THEN \E out \in GenOutcomes : StartGame(body, out)
        ELSE StartGame(body, NotCalled)

check_answer == \E body \in AnswerBodies : CheckAnswer(body)

Next == generate_story \/ check_answer

Spec == Init /\ [][Next]_vars

-----------------------------------------------------------------------------
(* The answer comparison over enumerated texts: one-puzzle stories whose     *)
(* solution is any short text, answered by any short text                    *)

TextsUpTo(n) == UNION { [1..k -> {"a", "A", " "}] : k \in 0..n }

\* the texts of the spec's example, and texts with punctuation
NamedTexts ==
    { <<"a","n","s","w","e","r">>, <<"A","n","s","w","e","r">>,
      <<" ","a","n","s","w","e","r"," ">>, <<"A","N","S","W","E","R">>,
      <<"a","n","s","w","r">>, <<"a",".">>, <<"a","n","s","w","e","r","!">> }

MatchSolutions == TextsUpTo(MaxSolutionLen) \cup NamedTexts

MatchAnswers == TextsUpTo(MaxAnswerLen) \cup NamedTexts

\* a well-formed one-puzzle story whose solution is s
MatchDoc(s) ==
    [StoryDoc(1, 1) EXCEPT !.puzzles = << [PuzzleA EXCEPT !.solution = s] >>]

match_start ==
    \E s \in MatchSolutions :
        StartGame([json |-> "object",
                   data |-> [difficulty |-> "Hard", genre |-> "Horror"]],
                  IF ReachesCall(client,
                                 [json |-> "object",
                                  data |-> [difficulty |-> "Hard", genre |-> "Horror"]])
                  THEN [kind |-> "object", doc |-> MatchDoc(s)]
                  ELSE NotCalled)

match_check ==
    \E a \in MatchAnswers :
        CheckAnswer([json |-> "object", data |-> [answer |-> Str(a)]])

NextMatch == match_start \/ match_check

SpecMatch == Init /\ [][NextMatch]_vars

-----------------------------------------------------------------------------
(* The prompt building over every named difficulty and genre, other labels   *)
(* and empty ones; the service fails or returns a full story                 *)

PromptDifficulties == {"Easy", "Medium", "Hard", "Nightmare", "easy", ""}

PromptGenres ==
    {"Sci-fi", "Medieval", "Mythological", "Horror", "Modern", "Western",
     "horror", ""}

PromptBodies ==
    { [json |-> "object", data |-> [difficulty |-> d, genre |-> g]] :
         d \in PromptDifficulties, g \in PromptGenres }

PromptOutcomes ==
    { [kind |-> "raise", doc |-> EmptyDict] }
    \cup { [kind |-> "object", doc |-> StoryDoc(v, n)] :
              v \in {1, 2}, n \in 1..MaxPuzzles }

prompt_start ==
    \E body \in PromptBodies :
        IF ReachesCall(client, body)
        THEN \E out \in PromptOutcomes : StartGame(body, out)
        ELSE StartGame(body, NotCalled)

NextPrompt == prompt_start

SpecPrompt == Init /\ [][NextPrompt]_vars

-----------------------------------------------------------------------------
(* Vocabulary of the properties *)

Started == "story" \in DOMAIN GAME_STATE

Index == GAME_STATE.current_puzzle_index

Puzzles == GAME_STATE.story.puzzles

Unfinished == Started /\ Index < Len(Puzzles)

Finished == Started /\ Index >= Len(Puzzles)

\* the installed story is a document with all four required fields
FullStory == Started /\ GAME_STATE.story \in FullDocs

\* the request body is a JSON object whose answer is a text or is absent
CarriesText(body) ==
    /\ body.json = "object"
    /\ "answer" \in DOMAIN body.data => body.data.answer.type = "str"

\* the submitted text, '' when the field is absent
SubmittedText(body) ==
    IF "answer" \in DOMAIN body.data THEN body.data.answer.val ELSE <<>>

\* the step handles a /check_answer request that carries a text
ChecksText == request'.op = "check_answer" /\ CarriesText(request'.body)

\* the submitted text equals the current solution after normalisation
Matches(body) ==
    normalize(SubmittedText(body)) = normalize(Puzzles[Index + 1].solution)

HasStatus(r, st) ==
    /\ r.code = 200
    /\ "status" \in DOMAIN r.body
    /\ r.body.status = st

IsAlreadyFinished(r) ==
    /\ r.code = 200
    /\ "message" \in DOMAIN r.body
    /\ r.body.message = "Game already finished."

-----------------------------------------------------------------------------
(* Properties *)

\* C1: in a started, unfinished game a /check_answer whose normalised answer
\* differs from the normalised solution of the current puzzle answers with
\* status "incorrect" and leaves GAME_STATE (story and index) as it was; as
\* this holds of every step, it holds of any run of incorrect submissions.
C1_IncorrectKeepsState ==
    [][ (ChecksText /\ Unfinished /\ ~ Matches(request'.body))
          => /\ HasStatus(resp', "incorrect")
             /\ GAME_STATE' = GAME_STATE ]_vars

\* an incorrect answer has been given to the second puzzle of a game
C1_Witness ==
    /\ request.op = "check_answer"
    /\ CarriesText(request.body)
    /\ HasStatus(resp, "incorrect")
    /\ FullStory
    /\ Unfinished
    /\ Index = 1

\* C2: once the index has reached the number of puzzles, every /check_answer
\* carrying any text answers "Game already finished." and leaves GAME_STATE
\* as it was (index still N, story still installed), so repeating it changes
\* nothing.
C2_FinishedIsIdempotent ==
    [][ (ChecksText /\ Finished)
          => /\ IsAlreadyFinished(resp')
             /\ GAME_STATE' = GAME_STATE
             /\ Finished' ]_vars

\* a game of at least two puzzles is complete and a further answer was sent
C2_Witness ==
    /\ request.op = "check_answer"
    /\ IsAlreadyFinished(resp)
    /\ FullStory
    /\ Len(Puzzles) >= 2
    /\ Index = Len(Puzzles)

\* C3: a /generate_story that returns success leaves GAME_STATE holding
\* exactly the document the generation service returned and index 0,
\* whatever GAME_STATE held before; and the /check_answer that follows it is
\* accepted (the index moves to 1) exactly when its text matches the first
\* puzzle of that document.
C3_StartReplacesStory ==
    [][ /\ (request'.op = "generate_story" /\ resp'.code = 200)
           => /\ generated'.kind = "object"
              /\ GAME_STATE' = [story |-> generated'.doc, current_puzzle_index |-> 0]
        /\ (request.op = "generate_story" /\ resp.code = 200 /\ ChecksText)
           => /\ GAME_STATE'.story = generated.doc
              /\ GAME_STATE'.current_puzzle_index = 1
                   <=> normalize(SubmittedText(request'.body))
                         = normalize(generated.doc.puzzles[1].solution)
              /\ GAME_STATE'.current_puzzle_index \in {0, 1} ]_vars

\* story two has just been installed by a successful /generate_story
C3_Witness ==
    /\ request.op = "generate_story"
    /\ resp.code = 200
    /\ GAME_STATE = [story |-> StoryDoc(2, 2), current_puzzle_index |-> 0]

\* the step handles a /generate_story request whose body is a JSON object
\* with difficulty or genre missing or empty
LacksField(req) ==
    /\ req.op = "generate_story"
    /\ req.body.json = "object"
    /\ \E key \in {"difficulty", "genre"} :
          key \notin DOMAIN req.body.data \/ req.body.data[key] = ""

HasError(r, text) ==
    /\ "error" \in DOMAIN r.body
    /\ r.body.error = text

\* the step is a /check_answer whose text matches the current solution
IsCorrectAnswer == ChecksText /\ Unfinished /\ Matches(request'.body)

\* C4 (as claimed): a /generate_story that does not return success leaves
\* GAME_STATE as it was, and GAME_STATE changes only on a /generate_story
\* that returns success or on a correct answer.
C4_FailedStartKeepsState ==
    [][ /\ (request'.op = "generate_story" /\ resp'.code # 200)
           => GAME_STATE' = GAME_STATE
        /\ GAME_STATE' # GAME_STATE
           => \/ request'.op = "generate_story" /\ resp'.code = 200
              \/ IsCorrectAnswer ]_vars

\* C5 (as claimed): while no story is installed, every /check_answer,
\* whatever its body, is answered 400 "Game not initialized..." and
\* GAME_STATE stays the empty dict.
C5_NotStartedForEveryBody ==
    (request.op = "check_answer" /\ ~ Started)
      => /\ resp.code = 400
         /\ HasError(resp, "Game not initialized. Please start a new game.")
         /\ GAME_STATE = EmptyDict

\* C6: in a started game, the answer that matches puzzle k = index + 1 is
\* answered, for k < N, with status "correct", the narrative continuation of
\* puzzle k, the puzzle object at position k + 1 and puzzle_index k + 1, and
\* for k = N (the story carrying its ending text) with status "complete",
\* the narrative continuation of puzzle N and the ending text; the index
\* becomes k.  A "complete" response is given only by the step that moves
\* the index from N - 1 to N, hence once per installed story.
C6_CorrectAnswersProgress ==
    [][ /\ IsCorrectAnswer
           => LET k == Index + 1
                  N == Len(Puzzles)
              IN  /\ GAME_STATE' = [GAME_STATE EXCEPT !.current_puzzle_index = k]
                  /\ k < N =>
                       resp' = [code |-> 200,
                                body |-> [success      |-> TRUE,
                                          status       |-> "correct",
                                          narrative    |-> Puzzles[k].narrative_continuation,
                                          puzzle       |-> Puzzles[k + 1],
                                          puzzle_index |-> k + 1]]
                  /\ (k = N /\ "ending_text" \in DOMAIN GAME_STATE.story) =>
                       resp' = [code |-> 200,
                                body |-> [success     |-> TRUE,
                                          status      |-> "complete",
                                          narrative   |-> Puzzles[N].narrative_continuation,
                                          ending_text |-> GAME_STATE.story.ending_text]]
        /\ (request'.op = "check_answer" /\ HasStatus(resp', "complete"))
           => /\ IsCorrectAnswer
              /\ Index = Len(Puzzles) - 1
              /\ Finished' ]_vars

\* the last puzzle of a game of at least two puzzles has just been solved
C6_Witness ==
    /\ request.op = "check_answer"
    /\ HasStatus(resp, "complete")
    /\ FullStory
    /\ Len(Puzzles) >= 2
    /\ Index = Len(Puzzles)

\* C7 (as claimed): a /generate_story with difficulty or genre missing or
\* empty is answered 400 "Missing difficulty or genre." and makes no
\* generation call, whether or not the client was initialised.
C7_MissingFieldAlways400 ==
    LacksField(request)
      => /\ resp.code = 400
         /\ HasError(resp, "Missing difficulty or genre.")
         /\ gen_calls = 0

\* C7 (amended): such a request makes no generation call in any state; it is
\* answered 400 "Missing difficulty or genre." when the client was
\* initialised and 500 "Gemini API client not initialized..." when it was
\* not, the client test coming first.
C7_MissingFieldByClient ==
    LacksField(request)
      => /\ gen_calls = 0
         /\ client = "Client"
              => resp.code = 400 /\ HasError(resp, "Missing difficulty or genre.")
         /\ client = "None"
              => /\ resp.code = 500
                 /\ HasError(resp, "Gemini API client not initialized. Check your API key.")

\* with a game installed and the client initialised, a request that has a
\* difficulty but no genre was rejected
C7_Witness ==
    /\ LacksField(request)
    /\ "difficulty" \in DOMAIN request.body.data
    /\ request.body.data.difficulty = "Hard"
    /\ "genre" \notin DOMAIN request.body.data
    /\ client = "Client"
    /\ resp.code = 400
    /\ FullStory
    /\ Len(Puzzles) >= 1

\* a document with the four required fields and at least one puzzle
WellFormedStory(doc) ==
    /\ DOMAIN doc = StoryFields
    /\ Len(doc.puzzles) >= 1

\* the puzzle count the request asks for
Requested(req) ==
    CASE req.body.data.difficulty = "Easy"   -> 7
      [] req.body.data.difficulty = "Medium" -> 5
      [] req.body.data.difficulty = "Hard"   -> 3
      [] OTHER                               -> 5

\* the last request was a /generate_story whose generation call returned a
\* well-formed story with another puzzle count than the requested one
CountMismatch ==
    /\ request.op = "generate_story"
    /\ gen_calls = 1
    /\ generated.kind = "object"
    /\ WellFormedStory(generated.doc)
    /\ Len(generated.doc.puzzles) # Requested(request)

\* C8: when the generation call returns a well-formed story whose puzzle
\* count is not the requested one, /generate_story prints the warning,
\* installs that story at index 0 and returns success with total_puzzles the
\* number of puzzles returned and puzzle_index 1.
C8_CountMismatchTolerated ==
    CountMismatch
      => /\ resp.code = 200
         /\ resp.body.success = TRUE
         /\ resp.body.total_puzzles = Len(generated.doc.puzzles)
         /\ resp.body.puzzle_index = 1
         /\ resp.body.puzzle = generated.doc.puzzles[1]
         /\ GAME_STATE = [story |-> generated.doc, current_puzzle_index |-> 0]
         /\ warning

\* three puzzles were requested ("Hard") and two were returned and installed
C8_Witness ==
    /\ CountMismatch
    /\ Requested(request) = 3
    /\ resp.code = 200
    /\ resp.body.total_puzzles = 2

\* C9 (as claimed): if the client could not be initialised, every
\* /generate_story is answered 500 "Gemini API client not initialized..."
\* without a generation call, GAME_STATE stays empty and every /check_answer
\* is answered 400 "Game not initialized...".
C9_NoClientNoGame ==
    client = "None"
      => /\ GAME_STATE = EmptyDict
         /\ gen_calls = 0
         /\ request.op = "generate_story"
              => /\ resp.code = 500
                 /\ HasError(resp, "Gemini API client not initialized. Check your API key.")
         /\ request.op = "check_answer"
              => /\ resp.code = 400
                 /\ HasError(resp, "Game not initialized. Please start a new game.")

\* C10 (as claimed): an answer submitted to a finished game is answered 200
\* without an error payload and with the success indicator true (stated for
\* games of at least one puzzle, which were completed by answering).
C10_FinishedIsSuccess ==
    [][ (ChecksText /\ Finished /\ Len(Puzzles) >= 1)
          => /\ resp'.code = 200
             /\ "error" \notin DOMAIN resp'.body
             /\ resp'.body.success = TRUE ]_vars

\* C10 (amended): an answer submitted to a finished game is answered 200
\* without an error payload, but with the success indicator false; the
\* other 200 answers of /check_answer (correct, complete, incorrect) carry
\* the success indicator true.
C10_FinishedIsNoError ==
    [][ /\ (ChecksText /\ Finished)
           => /\ resp'.code = 200
              /\ "error" \notin DOMAIN resp'.body
              /\ "success" \in DOMAIN resp'.body
              /\ resp'.body.success = FALSE
        /\ (request'.op = "check_answer" /\ resp'.code = 200
              /\ "status" \in DOMAIN resp'.body)
           => resp'.body.success = TRUE ]_vars

\* a one-puzzle game is complete and a further answer got the 200 response
\* whose success indicator is false
C10_Witness ==
    /\ request.op = "check_answer"
    /\ resp.code = 200
    /\ "success" \in DOMAIN resp.body
    /\ resp.body.success = FALSE
    /\ FullStory
    /\ Len(Puzzles) = 1
    /\ Index = 1

-----------------------------------------------------------------------------
(* C11: the answer comparison, stated without the code's strip and lower *)

\* positions of s that hold no whitespace
Inked(s) == { i \in 1..Len(s) : s[i] \notin Whitespace }

\* s without its leading and trailing whitespace: the part from the first
\* to the last character that is no whitespace
Core(s) ==
    IF Inked(s) = {} THEN <<>>
    ELSE SubSeq(s, CHOOSE i \in Inked(s) : \A j \in Inked(s) : i <= j,
                   CHOOSE i \in Inked(s) : \A j \in Inked(s) : i >= j)

\* two characters are the same letter in either case, or the same character
SameChar(c, d) ==
    \/ c = d
    \/ \E k \in 1..Len(UpperChars) :
          {c, d} = {UpperChars[k], LowerChars[k]}

\* a and s are equal up to letter case and surrounding whitespace; inner
\* whitespace, punctuation and length all count
EqualUpToCaseAndMargins(a, s) ==
    /\ Len(Core(a)) = Len(Core(s))
    /\ \A i \in 1..Len(Core(a)) : SameChar(Core(a)[i], Core(s)[i])

Text_answer == <<"a","n","s","w","e","r">>

AcceptedNamed ==
    { <<"A","n","s","w","e","r">>, <<" ","a","n","s","w","e","r"," ">>,
      <<"A","N","S","W","E","R">>, Text_answer }

-----------------------------------------------------------------------------
(* C12: the generation request *)

\* the tone table of the five genres, and the neutral tone
ExpectedTone(genre) ==
    CASE genre = "Sci-fi" ->
           "Clinical, technical, focused on cosmic scale, system failures, or computer logs."
      [] genre = "Medieval" ->
           "Mythic, slightly formal, referring to royalty, oaths, divine law, and ancient structures."
      [] genre = "Mythological" ->
           "Epic, archaic language, focused on fate, gods, heroes, and destiny."
      [] genre = "Horror" ->
           "Suspenseful, sensory, using first-person dread, panic, and environmental details (smell, cold)."
      [] genre = "Modern" ->
           "Casual, journalistic, focused on news reports, conspiracy theories, or digital communications (text messages)."
      [] OTHER -> "Neutral and clear."

\* the last request was a /generate_story with both fields non-empty,
\* handled with the client initialised
BothFieldsGiven ==
    /\ request.op = "generate_story"
    /\ request.body.json = "object"
    /\ DOMAIN request.body.data = {"difficulty", "genre"}
    /\ request.body.data.difficulty # ""
    /\ request.body.data.genre # ""
    /\ client = "Client"

\* C12: for every non-empty difficulty and genre the generation request
\* asks for 7 puzzles for "Easy", 5 for "Medium", 3 for "Hard" and 5 for any
\* other difficulty, names the two labels and carries the tone of the table
\* for the five genres and "Neutral and clear." for any other genre; a label
\* outside the tables is not rejected: the request is sent, and a full story
\* returned for it is installed with a success response.
C12_PromptFollowsTables ==
    BothFieldsGiven
      => /\ gen_calls = 1
         /\ prompt = [num_puzzles    |-> Requested(request),
                      difficulty     |-> request.body.data.difficulty,
                      genre          |-> request.body.data.genre,
                      narrative_tone |-> ExpectedTone(request.body.data.genre)]
         /\ resp.code # 400
         /\ generated.kind = "object" => resp.code = 200

\* a request with a difficulty and a genre outside the tables was sent with
\* the defaults and succeeded
C12_Witness ==
    /\ BothFieldsGiven
    /\ request.body.data.difficulty = "Nightmare"
    /\ request.body.data.genre = "Western"
    /\ prompt.num_puzzles = 5
    /\ prompt.narrative_tone = "Neutral and clear."
    /\ resp.code = 200

-----------------------------------------------------------------------------
(* C15 - C18: requests handled one at a time *)

\* C15: with an installed story the index is between 0 and the number of
\* puzzles; a /check_answer leaves it or adds one, and adds one exactly on
\* a text matching the current solution; a puzzle is put into a response
\* only as the puzzle at an index below the number of puzzles, and an
\* answer is compared (status correct, complete or incorrect) only when the
\* index was below it; no request that installs no document lowers the index.
C15_IndexWithinStory ==
    [][ /\ Started' =>
              /\ GAME_STATE'.current_puzzle_index >= 0
              /\ GAME_STATE'.current_puzzle_index <= Len(GAME_STATE'.story.puzzles)
        /\ (request'.op = "check_answer" /\ Started) =>
              /\ GAME_STATE'.current_puzzle_index \in {Index, Index + 1}
              /\ GAME_STATE'.current_puzzle_index = Index + 1 <=> IsCorrectAnswer
              /\ "status" \in DOMAIN resp'.body => Unfinished
        /\ (Started /\ generated'.kind # "object") =>
              GAME_STATE'.current_puzzle_index >= Index
        /\ "puzzle" \in DOMAIN resp'.body =>
              /\ GAME_STATE'.current_puzzle_index < Len(GAME_STATE'.story.puzzles)
              /\ resp'.body.puzzle
                   = GAME_STATE'.story.puzzles[GAME_STATE'.current_puzzle_index + 1]
              /\ resp'.body.puzzle_index = GAME_STATE'.current_puzzle_index + 1
      ]_vars

\* the third puzzle of a three-puzzle game has been served
C15_Witness ==
    /\ request.op = "check_answer"
    /\ HasStatus(resp, "correct")
    /\ FullStory
    /\ Len(Puzzles) = 3
    /\ Index = 2
    /\ resp.body.puzzle_index = 3

\* C16: once a story is installed it stays installed through every later
\* /check_answer and every later /generate_story, failing or not; from then
\* on no /check_answer is answered "Game not initialized..."; and GAME_STATE
\* holds either neither or both of 'story' and 'current_puzzle_index'.
C16_StoryStaysInstalled ==
    [][ /\ Started => Started'
        /\ DOMAIN GAME_STATE' \in {{}, {"story", "current_puzzle_index"}}
        /\ (Started /\ request'.op = "check_answer")
             => ~ HasError(resp', "Game not initialized. Please start a new game.")
      ]_vars

\* a /generate_story failed while a game was in progress, and the game is
\* still installed
C16_Witness ==
    /\ request.op = "generate_story"
    /\ resp.code = 500
    /\ gen_calls = 1
    /\ FullStory
    /\ Index >= 1

\* C17: a /check_answer, whatever its body and its outcome, leaves the
\* installed story (title, introduction, puzzles with their solutions,
\* ending text) as it was and adds or removes no key of GAME_STATE; only the
\* index may differ.
C17_CheckAnswerKeepsStory ==
    [][ request'.op = "check_answer"
          => /\ DOMAIN GAME_STATE' = DOMAIN GAME_STATE
             /\ Started => GAME_STATE'.story = GAME_STATE.story ]_vars

\* story two was answered to its end and is still the installed story
C17_Witness ==
    /\ request.op = "check_answer"
    /\ Started
    /\ GAME_STATE.story = StoryDoc(2, 2)
    /\ Index = 2
    /\ HasStatus(resp, "complete")

\* the last request passed the client test and the field test
PassedChecks ==
    /\ request.op = "generate_story"
    /\ client = "Client"
    /\ request.body.json = "object"
    /\ \A key \in {"difficulty", "genre"} :
          key \in DOMAIN request.body.data /\ request.body.data[key] # ""

\* C18: a /generate_story that passes the client test and the field test
\* makes exactly one generation call, whether the call fails, the document
\* is rejected or the story is installed; a /generate_story stopped by those
\* tests and every /check_answer make none.
C18_OneCallPerStart ==
    /\ PassedChecks => gen_calls = 1
    /\ (request.op = "generate_story" /\ ~ PassedChecks) => gen_calls = 0
    /\ request.op = "check_answer" => gen_calls = 0

\* the generation call raised: one call was made and the request failed
C18_Witness ==
    /\ PassedChecks
    /\ generated.kind = "raise"
    /\ gen_calls = 1
    /\ resp.code = 500

-----------------------------------------------------------------------------
(* Handlers interleaved: two threads run the handlers side by side.  A step  *)
(* is one access to GAME_STATE together with the local computation that     *)
(* follows it up to the next access; `+= 1` on line 169 is a load and a     *)
(* store.  The variables of the one-at-a-time machine stay as Init left them *)

\* the documents the generation service returns here
ConcDocs == { StoryDoc(1, 2), StoryDoc(2, 1) }

ConcOutcomes ==
    { [kind |-> "raise", doc |-> EmptyDict] }
    \cup { [kind |-> "object", doc |-> d] : d \in ConcDocs }

ConcStartBodies ==
    { [json |-> "object", data |-> [difficulty |-> "Easy", genre |-> "Horror"]],
      [json |-> "object", data |-> [difficulty |-> "Easy"]] }

ConcAnswerBodies ==
    { [json |-> "object", data |-> [answer |-> a]] :
         a \in { Str(<<" ","K","E","Y","\n">>), Str(<<"o","k">>),
                 [type |-> "int", val |-> <<"4","2">>] } }

\* the handler returns r: the locals are gone, the observations stay
Return(th, r) ==
    [IdleThread EXCEPT !.resp = r,
                       !.stale_index = th.stale_index,
                       !.evaluated = th.evaluated,
                       !.seen = th.seen,
                       !.advanced_stale = th.advanced_stale]

\* thread t goes on as th, every other thread stays
Step(t, th) == threads' = [threads EXCEPT ![t] = th]

Others == <<client, resp, gen_calls, warning, request, generated, prompt>>

\* lines 152-156: the body is read and normalised, then 'story' is tested
check_begin ==
    \E t \in Threads, body \in ConcAnswerBodies :
       /\ threads[t].pc = "idle"
       /\ LET crashed == \/ body.json # "object"
                         \/ get_answer(body.data).type # "str"
          IN  Step(t, IF crashed
                      THEN Return(IdleThread, Unhandled("AttributeError"))
                      ELSE IF "story" \notin DOMAIN GAME_STATE
                      THEN Return(IdleThread, NotStarted)
                      ELSE [IdleThread EXCEPT
                              !.pc = "c158",
                              !.user_answer = normalize(get_answer(body.data).val)])
       /\ UNCHANGED <<GAME_STATE, compared, Others>>

\* line 158: current_index = GAME_STATE['current_puzzle_index'], read while
\* another thread may stand between lines 127 and 128
read_index ==
    \E t \in Threads :
       /\ threads[t].pc = "c158"
       /\ Step(t, IF "current_puzzle_index" \notin DOMAIN GAME_STATE
                  THEN Return(threads[t], Unhandled("KeyError"))
                  ELSE [threads[t] EXCEPT
                          !.pc = "c159",
                          !.current_index = GAME_STATE.current_puzzle_index,
                          !.stale_index =
                              /\ GAME_STATE.current_puzzle_index # 0
                              /\ \E u \in Threads : threads[u].pc = "g128"])
       /\ UNCHANGED <<GAME_STATE, compared, Others>>

\* lines 159-166 and 192-197: story_data = GAME_STATE['story'], the finished
\* test and the comparison, all on the thread's own values
read_story ==
    \E t \in Threads :
       LET th            == threads[t]
           story_data    == GAME_STATE.story
           current_index == th.current_index
       IN  /\ th.pc = "c159"
           /\ IF current_index >= Len(story_data.puzzles)
              THEN /\ Step(t, Return(th, AlreadyFinished))
                   /\ UNCHANGED compared
              ELSE /\ compared' = IF th.stale_index THEN compared
                                  ELSE compared \cup {current_index}
                   /\ IF th.user_answer
                           = normalize(story_data.puzzles[current_index + 1].solution)
                      THEN Step(t, [th EXCEPT !.pc = "c169",
                                              !.story_data = story_data,
                                              !.evaluated = TRUE])
                      ELSE Step(t, Return([th EXCEPT !.evaluated = TRUE], Incorrect))
           /\ UNCHANGED <<GAME_STATE, Others>>

\* line 169, first half: the value of GAME_STATE['current_puzzle_index']
load_index ==
    \E t \in Threads :
       /\ threads[t].pc = "c169"
       /\ Step(t, [threads[t] EXCEPT !.pc = "c169s",
                                     !.loaded = GAME_STATE.current_puzzle_index])
       /\ UNCHANGED <<GAME_STATE, compared, Others>>

\* a store of the index read on line 158, plus one
stored_index_from_read(th) == th.current_index + 1

\* line 169: what `+= 1` stores
stored_index(th) == th.loaded + 1

\* line 169, second half: the store
store_index ==
    \E t \in Threads :
       /\ threads[t].pc = "c169s"
       /\ stored_index(threads[t]) <= MaxIndex
       /\ GAME_STATE' = Put(GAME_STATE, "current_puzzle_index",
                            stored_index(threads[t]))
       /\ Step(t, [threads[t] EXCEPT
                     !.pc = "c170",
                     !.advanced_stale = (threads[t].seen = "game_replaced")])
       /\ UNCHANGED <<compared, Others>>

\* lines 170-190: next_index = GAME_STATE['current_puzzle_index'] and the
\* response built from the thread's own story_data
read_next ==
    \E t \in Threads :
       LET th             == threads[t]
           story_data     == th.story_data
           current_puzzle == story_data.puzzles[th.current_index + 1]
           next_index     == GAME_STATE.current_puzzle_index
       IN  /\ th.pc = "c170"
           /\ Step(t, Return(th,
                  IF next_index < Len(story_data.puzzles)
                  THEN Correct(current_puzzle, story_data.puzzles[next_index + 1],
                               next_index)
                  ELSE IF "ending_text" \notin DOMAIN story_data
                  THEN Unhandled("KeyError")
                  ELSE Complete(current_puzzle, story_data)))
           /\ UNCHANGED <<GAME_STATE, compared, Others>>

\* lines 83-125: the tests, the call and json.loads; a request that fails
\* here returns without having touched GAME_STATE
start_begin ==
    \E t \in Threads, body \in ConcStartBodies, out \in ConcOutcomes :
       /\ threads[t].pc = "idle"
       /\ Step(t, IF /\ ReachesCall(client, body)
                     /\ out.kind = "object"
                     /\ "puzzles" \in DOMAIN out.doc
                  THEN [IdleThread EXCEPT !.pc = "g127", !.story_data = out.doc]
                  ELSE Return(IdleThread,
                              generate_story_handler(client, GAME_STATE,
                                                     body, out).resp))
       /\ UNCHANGED <<GAME_STATE, compared, Others>>

\* what a /check_answer in flight observes when 'story' is assigned: an index
\* it holds belongs to the game before, a story it holds is the one before
story_assigned(th) ==
    IF th.pc = "c159"
    THEN [th EXCEPT !.stale_index = (th.current_index # 0)]
    ELSE IF th.pc \in {"c169", "c169s", "c170"} /\ th.seen = "current"
    THEN [th EXCEPT !.seen = "story_replaced"]
    ELSE th

\* what it observes when the index is assigned 0: the next game has begun,
\* or the index of its own game was set back
index_assigned(th) ==
    IF th.pc \in {"c169", "c169s", "c170"} /\ th.seen = "story_replaced"
    THEN [th EXCEPT !.seen = "game_replaced"]
    ELSE IF th.pc \in {"c169", "c169s", "c170"} /\ th.seen = "current"
    THEN [th EXCEPT !.seen = "index_reset"]
    ELSE th

\* line 127: GAME_STATE['story'] = story_data
assign_story ==
    \E t \in Threads :
       /\ threads[t].pc = "g127"
       /\ GAME_STATE' = Put(GAME_STATE, "story", threads[t].story_data)
       /\ threads' = [u \in Threads |->
                        IF u = t THEN [threads[t] EXCEPT !.pc = "g128"]
                        ELSE story_assigned(threads[u])]
       /\ compared' = {}
       /\ UNCHANGED Others

\* line 128: GAME_STATE['current_puzzle_index'] = 0
assign_index ==
    \E t \in Threads :
       /\ threads[t].pc = "g128"
       /\ GAME_STATE' = Put(GAME_STATE, "current_puzzle_index", 0)
       /\ threads' = [u \in Threads |->
                        IF u = t THEN [threads[t] EXCEPT !.pc = "g130"]
                        ELSE index_assigned(threads[u])]
       /\ compared' = {}
       /\ UNCHANGED Others

\* lines 130-144: first_puzzle_index = GAME_STATE['current_puzzle_index'],
\* the first puzzle taken from the thread's own story_data, the response
first_puzzle ==
    \E t \in Threads :
       LET story_data         == threads[t].story_data
           first_puzzle_index == GAME_STATE.current_puzzle_index
       IN  /\ threads[t].pc = "g130"
           /\ Step(t, Return(IdleThread,
                  IF first_puzzle_index >= Len(story_data.puzzles)
                  THEN GenerationFailure("index")
                  ELSE IF "story_title" \notin DOMAIN story_data
                  THEN GenerationFailure("story_title")
                  ELSE IF "introduction" \notin DOMAIN story_data
                  THEN GenerationFailure("introduction")
                  ELSE StartSuccess(story_data,
                                    story_data.puzzles[first_puzzle_index + 1])))
           /\ UNCHANGED <<GAME_STATE, compared, Others>>

NextConc ==
    \/ check_begin
    \/ read_index
    \/ read_story
    \/ load_index
    \/ store_index
    \/ read_next
    \/ start_begin
    \/ assign_story
    \/ assign_index
    \/ first_puzzle

SpecConc == Init /\ [][NextConc]_vars

-----------------------------------------------------------------------------
(* C13, C14: requests handled side by side *)

\* thread t has stored its increment and not yet answered
Incremented(t) == threads[t].pc = "c170"

\* C13: when two /check_answer handlers have both read the same index i on
\* line 158, both found their answer correct and both stored their
\* increment, with no /generate_story assigning to GAME_STATE between their
\* reads and now, the index is i+1 or i+2;
\* it is i+2 when one handler loaded the index after the other had stored
\* it, and then no handler that read its index from this game has compared
\* an answer at index i+1.
C13_BothIncrementsApply ==
    \A a, b \in Threads :
       LET i == threads[a].current_index
       IN  ( /\ a # b
             /\ Incremented(a) /\ Incremented(b)
             /\ threads[b].current_index = i
             /\ threads[a].seen = "current" /\ threads[b].seen = "current"
             /\ ~ threads[a].stale_index /\ ~ threads[b].stale_index )
           => /\ Index \in {i + 1, i + 2}
              /\ threads[a].loaded # threads[b].loaded => Index = i + 2
              /\ threads[a].loaded = threads[b].loaded => Index = i + 1
              /\ Index = i + 2 => (i + 1) \notin compared

\* both handlers answered puzzle 1 of a two-puzzle story: the index is 2 and
\* nobody was asked puzzle 2
C13_Witness ==
    /\ Incremented("t1") /\ Incremented("t2")
    /\ threads["t1"].current_index = 0
    /\ threads["t2"].current_index = 0
    /\ Len(Puzzles) = 2
    /\ Index = 2
    /\ compared = {0}

\* both handlers answered the only puzzle: the index is above the count
IndexAboveCount ==
    /\ Incremented("t1") /\ Incremented("t2")
    /\ Started
    /\ Index > Len(Puzzles)

\* C14: no /check_answer compares an answer with a puzzle of the story just
\* assigned at a non-zero index it read from the game before, and none
\* stores its increment into the index of the next game after a comparison
\* with a puzzle of the story before.
C14_InstallIsOneStep ==
    \A t \in Threads :
       /\ ~ (threads[t].evaluated /\ threads[t].stale_index)
       /\ ~ threads[t].advanced_stale

====
